---- MODULE Spec2Model ----
(***************************************************************************)
(* Model of the NSS client GROUP interface, src/nss_client/group.c:        *)
(*   - sss_nss_getgr_readrep, the decoder of one flat group record into a  *)
(*     caller-supplied arena (an operator, computed loop by loop);         *)
(*   - the process-wide enumeration cursor sss_nss_getgrent_data with      *)
(*     _nss_sss_setgrent / _nss_sss_getgrent_r / _nss_sss_endgrent;        *)
(*   - the single-key lookups _nss_sss_getgrnam_r / _nss_sss_getgrgid_r    *)
(*     and _nss_sss_initgroups_dyn, as far as reply-buffer ownership goes. *)
(*                                                                         *)
(* Three specifications share the module: SpecReadrep applies the decoder *)
(* to bounded inputs, SpecInitgroups applies _nss_sss_initgroups_dyn to    *)
(* bounded lists and replies, and Spec runs the calls against a            *)
(* nondeterministic channel.                                               *)
(***************************************************************************)
EXTENDS Integers, Sequences, FiniteSets, TLC

VARIABLES
    \* ---- SpecReadrep: one call of sss_nss_getgr_readrep -----------------
    buf,        \* the source slice, a sequence of bytes; *len = Len(buf)
    buflen,     \* pr->buflen, the declared capacity of the arena
    junk,       \* the value an arena byte holds before it is written
                \* (chosen at the start, in both specifications)
    in_rec,     \* ghost: the record the slice was encoded from
    in_mem,     \* ghost: the member count put in the header
    dpc,        \* "input" before the call, "done" after it
    res,        \* what the call did: return value, *len, reads, writes
    \* ---- Spec: the calls and the channel --------------------------------
    pc,         \* "idle", "getgrent_wait" (blocked in sss_nss_make_request)
                \* or "fault" (the process died on an out-of-arena write)
    cur,        \* sss_nss_getgrent_data: [data, len, ptr]
    heap,       \* ids of the reply buffers allocated and not yet freed
    mem,        \* contents of the reply buffers in heap
    call,       \* arguments of the _nss_sss_getgrent_r call in progress
    last,       \* outcome of the last call that returned
    supplied,   \* ghost: records of the batches fetched in this enumeration
    returned,   \* ghost: records handed back in this enumeration
    clean,      \* ghost: this enumeration saw only well-formed batches,
                \* large arenas and no channel failure
    \* ---- SpecInitgroups: one call of _nss_sss_initgroups_dyn ------------
    gl,         \* the caller's list: [start, size, groups], *groups a
                \* sequence holding (*groups)[0 .. *size - 1]
    g_in,       \* [limit, num_ret, ok]: the limit argument, the count in
                \* the reply header, and whether realloc succeeds
    gpc,        \* "input" before the call, "done" after it
    gres        \* what the call did: status, *errnop, list, reads, writes

dvars == <<buf, buflen, junk, in_rec, in_mem, dpc, res>>
cvars == <<pc, cur, heap, mem, call, last, supplied, returned, clean>>
gvars == <<gl, g_in, gpc, gres>>
vars  == <<buf, buflen, junk, in_rec, in_mem, dpc, res,
           pc, cur, heap, mem, call, last, supplied, returned, clean,
           gl, g_in, gpc, gres>>

----------------------------------------------------------------------------
(* Bounds of the model.                                                    *)

MaxMembers == 2     \* members of an encoded record
MaxHdrMem  == 3     \* largest member count written in a header
MaxBuflen  == 37    \* largest arena capacity tried by SpecReadrep

----------------------------------------------------------------------------
(* Program constants.                                                      *)

MinFrame  == 21     \* if (*len < 21)
HdrLen    == 12     \* sbuf = &buf[12]; slen = *len - 12
PtrSize   == 8      \* sizeof(char *), LP64
BatchHdr  == 8      \* sss_nss_getgrent_data.ptr = 8

\* size_t arithmetic wraps.  SizeWrap stands for 2^64: every length, offset
\* and capacity of the model is far below 2^20, so a value that wrapped
\* stays above every value that did not, as with 2^64.
SizeWrap == 2^24
SizeSub(a, b) == (a - b) % SizeWrap

\* uint32_t arithmetic wraps at 2^32.  U32Max stands for 2^32 - 1, the
\* largest count a header can carry: it is the one value whose successor
\* is 0.  No other header value of the model comes near it.
U32Max == 2^16 - 1
U32Inc(n) == IF n = U32Max THEN 0 ELSE n + 1

EOK     == "EOK"
EBADMSG == "EBADMSG"
ENOMEM  == "ENOMEM"
NULL    == -1

----------------------------------------------------------------------------
(* Bytes and the wire format of one record (comment at group.c:61-68).     *)

\* buf[k] of the C code, k counted from 0.  A read at or past the end of
\* the slice is recorded by the caller in rd; the value it yields is not
\* determined by the slice.
ByteAt(b, k) == IF k < Len(b) THEN b[k + 1] ELSE 1

RECURSIVE Flatten(_)
Flatten(strs) ==
    IF strs = <<>> THEN <<>>
    ELSE Head(strs) \o <<0>> \o Flatten(Tail(strs))

\* 64-bit id, 32-bit member count (little endian), then the strings.
Encode(gid, m, rec) ==
    <<gid, 0, 0, 0, 0, 0, 0, 0>> \o <<m % 256, m \div 256, 0, 0>>
        \o rec.name \o <<0>> \o rec.passwd \o <<0>> \o Flatten(rec.mem)

\* ((uintN_t *)buf)[..]: little-endian value of bytes [from, from+n).
RECURSIVE LE(_, _, _)
LE(b, from, n) ==
    IF n = 0 THEN 0
    ELSE LET hi == LE(b, from + 1, n - 1)
         IN  ByteAt(b, from) + (IF hi = 0 THEN 0 ELSE 256 * hi)

----------------------------------------------------------------------------
(* sss_nss_getgr_readrep (group.c:76-160).  The working state st carries   *)
(* the locals i, dlen, ptmem, the arena bytes written so far, the indices  *)
(* of the arena bytes written (wr) and of the source bytes read (rd), the  *)
(* fields of pr->result and the member pointer table (tab), and the count  *)
(* and the size in bytes the table was reserved with (mem_num, tabsize).   *)

\* The value &(pr->buffer[k]) reads back: what was written, else junk.
ArenaAt(st, k, jk) == IF k \in DOMAIN st.arena THEN st.arena[k] ELSE jk

\* Arena bytes of pointer slot l of the table that starts at offset base.
SlotBytes(base, l) ==
    (base + PtrSize * l) .. (base + PtrSize * l + PtrSize - 1)

\* Mutant of CopyGuard: the source bound is off by one.
CopyGuard_OffByOne(i, slen, dlen) == i <= slen /\ 0 < dlen

\* while (i < slen && 0 < dlen)      -- lines 97, 113 and 140
CopyGuard(i, slen, dlen) == i < slen /\ 0 < dlen

\* Lines 97-102 and 113-118: copy one string to buffer[i], stop at NUL.
RECURSIVE CopyField(_, _, _)
CopyField(b, slen, st) ==
    IF CopyGuard(st.i, slen, st.dlen)
    THEN LET c   == ByteAt(b, HdrLen + st.i)
             st1 == [st EXCEPT !.arena = (st.i :> c) @@ @,
                               !.wr    = @ \cup {st.i},
                               !.rd    = @ \cup {HdrLen + st.i}]
         IN  IF c = 0 THEN st1
             ELSE CopyField(b, slen, [st1 EXCEPT !.i    = @ + 1,
                                                 !.dlen = SizeSub(@, 1)])
    ELSE st

\* Lines 140-146: copy one member string to buffer[ptmem].
RECURSIVE CopyMember(_, _, _)
CopyMember(b, slen, st) ==
    IF CopyGuard(st.i, slen, st.dlen)
    THEN LET c   == ByteAt(b, HdrLen + st.i)
             st1 == [st EXCEPT !.arena = (st.ptmem :> c) @@ @,
                               !.wr    = @ \cup {st.ptmem},
                               !.rd    = @ \cup {HdrLen + st.i},
                               !.i     = @ + 1,
                               !.dlen  = SizeSub(@, 1)]
         IN  IF c = 0 THEN st1
             ELSE CopyMember(b, slen, [st1 EXCEPT !.ptmem = @ + 1])
    ELSE st

\* Lines 147-154: the checks after the copy of one member; c is the byte
\* at buffer[ptmem].  dlen is a size_t, and the tests are written as the
\* code writes them.
MemberCheck(c, i, slen, dlen) ==
    IF c # 0 /\ i > slen THEN EBADMSG
    ELSE IF c # 0 /\ 0 > dlen THEN ENOMEM
    ELSE EOK

\* Lines 138-156: the loop over the declared members.  offs lists the
\* values stored in gr_mem[0], gr_mem[1], ...  Once nothing is left to
\* copy (the guard of line 140 is false and stays false), every further
\* pass only stores &buffer[ptmem] in its slot, reads the unwritten byte
\* buffer[ptmem] and steps ptmem: these passes are taken at once, rest
\* slots filled with rest0, rest0 + 1, ...
RECURSIVE ReadMembers(_, _, _, _, _, _)
ReadMembers(b, slen, mem_num, jk, l, st) ==
    IF l < mem_num
    THEN LET st0 == [st EXCEPT !.offs = Append(@, st.ptmem)]
             st1 == CopyMember(b, slen, st0)
             chk == MemberCheck(ArenaAt(st1, st1.ptmem, jk),
                                st1.i, slen, st1.dlen)
             st2 == [st1 EXCEPT !.ptmem = @ + 1]
         IN  IF chk # EOK THEN [st1 EXCEPT !.ret = chk]
             ELSE IF CopyGuard(st2.i, slen, st2.dlen) \/ l + 1 = mem_num
             THEN ReadMembers(b, slen, mem_num, jk, l + 1, st2)
             ELSE LET chk2 == MemberCheck(jk, st2.i, slen, st2.dlen)
                  IN  IF chk2 # EOK
                      THEN [st2 EXCEPT !.rest0 = st2.ptmem, !.rest = 1,
                                       !.ret = chk2]
                      ELSE [st2 EXCEPT !.rest0 = st2.ptmem,
                                       !.rest  = mem_num - (l + 1),
                                       !.ptmem = @ + mem_num - (l + 1)]
    ELSE st

\* Line 130: sizeof(char *) * (mem_num + 1).  mem_num is a uint32_t and
\* 1 an int, so the sum is a 32-bit unsigned sum, widened to size_t only
\* for the product.
TableSize(mem_num) == PtrSize * U32Inc(mem_num)

\* Lines 129-136: place the member table and its NULL sentinel.
PlaceTable(mem_num, st) ==
    LET ptmem == TableSize(mem_num)
        dlen  == SizeSub(st.dlen, ptmem)
    IN  IF 0 > dlen
        THEN [st EXCEPT !.gr_mem = st.i, !.dlen = dlen, !.ret = ENOMEM,
                        !.mem_num = mem_num, !.tabsize = ptmem]
        ELSE [st EXCEPT !.gr_mem = st.i,
                        !.mem_num = mem_num,
                        !.tabsize = ptmem,
                        !.dlen   = dlen,
                        !.ptmem  = ptmem + st.i,
                        !.sent   = mem_num,
                        !.wr     = @ \cup SlotBytes(st.i, mem_num)]

\* The member table as the call left it: slot |-> the offset stored in it,
\* NULL in the sentinel slot.
Tab(st) ==
    LET n == Len(st.offs) + st.rest
    IN  [l \in (0 .. (n - 1)) \cup (IF st.sent = NULL THEN {} ELSE {st.sent})
            |-> IF l < Len(st.offs) THEN st.offs[l + 1]
                ELSE IF l < n THEN st.rest0 + (l - Len(st.offs))
                ELSE NULL]

\* What a return leaves behind: the return value, *len, and the working
\* state with the pointer slots of the members among the bytes written.
Returned(code, lenOut, st) ==
    [st EXCEPT !.ret = code,
               !.len = lenOut,
               !.tab = Tab(st),
               !.wr  = IF st.gr_mem = NULL THEN @
                       ELSE @ \cup (st.gr_mem ..
                              (st.gr_mem
                                 + PtrSize * (Len(st.offs) + st.rest) - 1))]

sss_nss_getgr_readrep(b, cap, jk) ==
    LET len == Len(b)
        st0 == [ret |-> EOK, len |-> len, i |-> 0, dlen |-> cap, ptmem |-> 0,
                arena |-> <<>>, wr |-> {}, rd |-> {},
                gr_gid |-> 0, gr_name |-> NULL, gr_passwd |-> NULL,
                gr_mem |-> NULL, sent |-> NULL, offs |-> <<>>,
                rest0 |-> 0, rest |-> 0, tab |-> <<>>,
                mem_num |-> 0, tabsize |-> 0]
    IN
    IF len < MinFrame THEN Returned(EBADMSG, len, st0)
    ELSE
    LET mem_num == LE(b, 8, 4)
        slen    == SizeSub(len, HdrLen)
        s1 == CopyField(b, slen,
                  [st0 EXCEPT !.gr_gid = LE(b, 0, 8), !.rd = 0 .. (HdrLen - 1),
                              !.gr_name = 0])
    IN
    IF s1.i >= slen THEN Returned(EBADMSG, len, s1)
    ELSE IF 0 >= s1.dlen THEN Returned(ENOMEM, len, s1)
    ELSE
    LET s2 == CopyField(b, slen,
                  [s1 EXCEPT !.i = @ + 1, !.dlen = SizeSub(@, 1),
                             !.gr_passwd = s1.i + 1])
    IN
    IF s2.i >= slen THEN Returned(EBADMSG, len, s2)
    ELSE IF 0 >= s2.dlen THEN Returned(ENOMEM, len, s2)
    ELSE
    LET s3 == PlaceTable(mem_num,
                  [s2 EXCEPT !.i = @ + 1, !.dlen = SizeSub(@, 1)])
    IN
    IF s3.ret # EOK THEN Returned(s3.ret, len, s3)
    ELSE
    LET s4 == ReadMembers(b, slen, mem_num, jk, 0, s3)
    IN
    IF s4.ret # EOK THEN Returned(s4.ret, len, s4)
    ELSE Returned(EOK, SizeSub(slen, s4.i), s4)

\* A write outside the arena is undefined behaviour: the call may go on as
\* computed, or the process may die on the write.
FAULT == "FAULT"
InArena(r, cap) == r.wr \subseteq 0 .. (cap - 1)
Outcomes(r, cap) ==
    {r} \cup (IF InArena(r, cap) THEN {} ELSE {[r EXCEPT !.ret = FAULT]})

----------------------------------------------------------------------------
(* The records, slices and arenas SpecReadrep tries.                       *)

Names       == {<<>>, <<1, 2, 3>>}
Passwds     == {<<>>, <<4>>}
MemberNames == {<<>>, <<5, 6>>}
MemberLists == UNION {[1 .. n -> MemberNames] : n \in 0 .. MaxMembers}
Records     == [name : Names, passwd : Passwds, mem : MemberLists]
Gid         == 7

RECURSIVE FlatLen(_)
FlatLen(strs) ==
    IF strs = <<>> THEN 0 ELSE Len(Head(strs)) + 1 + FlatLen(Tail(strs))

\* Arena bytes a record needs: the strings with their NULs and the table
\* of (member count + 1) pointers.
Need(rec) ==
    Len(rec.name) + 1 + Len(rec.passwd) + 1
        + PtrSize * (Len(rec.mem) + 1) + FlatLen(rec.mem)

\* Source bytes of a record: header and strings with their NULs.
WireLen(rec) ==
    HdrLen + Len(rec.name) + 1 + Len(rec.passwd) + 1 + FlatLen(rec.mem)

\* The NUL-terminated string at offset off of the arena a call left; -1
\* closes a string that runs into a byte the call never wrote.
RECURSIVE CStr(_, _)
CStr(r, off) ==
    IF off \notin DOMAIN r.arena THEN <<-1>>
    ELSE IF r.arena[off] = 0 THEN <<>>
    ELSE <<r.arena[off]>> \o CStr(r, off + 1)

\* The record a caller reads out of pr->result after the call.
Decoded(r, m) ==
    [name   |-> CStr(r, r.gr_name),
     passwd |-> CStr(r, r.gr_passwd),
     mem    |-> [l \in 1 .. m |-> CStr(r, r.tab[l - 1])]]

NoLast == [op |-> "none", status |-> "none", errnop |-> "none",
           repbuf |-> NULL, buflen |-> 0, fetches |-> 0]
NoCall == [buflen |-> 0, fetches |-> 0]

CursorAtStart ==
    /\ pc = "idle"
    /\ cur = [data |-> NULL, len |-> 0, ptr |-> 0]
    /\ heap = <<>>
    /\ mem = <<>>
    /\ call = NoCall
    /\ last = NoLast
    /\ supplied = <<>>
    /\ returned = <<>>
    /\ clean = FALSE

\* No call of _nss_sss_initgroups_dyn under way: an empty list.
GidListAtStart ==
    /\ gl = [start |-> 0, size |-> 0, groups |-> <<>>]
    /\ g_in = [limit |-> 0, num_ret |-> 0, ok |-> TRUE]
    /\ gpc = "input"
    /\ gres = [status |-> "none"]

\* Slices whose header carries the largest count, with an arena that
\* holds the name and the passwd.
TopCountRecords == {rec \in Records : Len(rec.mem) = 1 /\ rec.name # <<>>}

InitReadrep ==
    /\ \/ /\ \E rec \in Records, m \in 0 .. MaxHdrMem :
               \E cut \in 0 .. WireLen(rec) :
                  /\ buf = SubSeq(Encode(Gid, m, rec), 1, cut)
                  /\ in_rec = rec
                  /\ in_mem = m
          /\ buflen \in 0 .. MaxBuflen
       \/ /\ \E rec \in TopCountRecords :
                  /\ buf = Encode(Gid, U32Max, rec)
                  /\ in_rec = rec
                  /\ in_mem = U32Max
          /\ buflen \in {MaxBuflen - 1, MaxBuflen}
    /\ junk \in {0, 35}
    /\ dpc = "input"
    /\ res = [ret |-> "none"]
    /\ CursorAtStart
    /\ GidListAtStart

\* One call sss_nss_getgr_readrep(pr, buf, &len) with len = Len(buf).
Decode ==
    /\ dpc = "input"
    /\ res' \in Outcomes(sss_nss_getgr_readrep(buf, buflen, junk), buflen)
    /\ dpc' = "done"
    /\ UNCHANGED <<buf, buflen, junk, in_rec, in_mem>>
    /\ UNCHANGED <<cvars, gvars>>

NextReadrep == Decode

SpecReadrep == InitReadrep /\ [][NextReadrep]_vars

\* The slice is exactly one encoded record whose header tells its members.
WellFormed ==
    /\ in_mem = Len(in_rec.mem)
    /\ Len(buf) = WireLen(in_rec)

\* The slice is a well-formed record cut before its logical end.
Truncated ==
    /\ in_mem = Len(in_rec.mem)
    /\ Len(buf) < WireLen(in_rec)

LargeArena == buflen >= Need(in_rec)

----------------------------------------------------------------------------
(* Claims about sss_nss_getgr_readrep, checked under SpecReadrep.          *)

\* C1: for every slice, member count and arena capacity, the call writes
\* only arena bytes at indices in [0, capacity), whatever it returns.
C1_WritesInsideArena ==
    dpc = "done" => res.wr \subseteq 0 .. (buflen - 1)

\* C2: a well-formed record and an arena smaller than the record needs
\* always end in ENOMEM, never in success.  Stated for the records that
\* pass the frame floor of line 84, so that a violation is a shortfall of
\* the arena the call did not report.
C2_SmallArenaIsENOMEM ==
    (dpc = "done" /\ WellFormed /\ Len(buf) >= MinFrame
                  /\ buflen < Need(in_rec))
        => res.ret = ENOMEM

\* C3: a well-formed record cut before its logical end, decoded into a
\* sufficiently large arena, always ends in EBADMSG, never in success.
C3_TruncatedIsEBADMSG ==
    (dpc = "done" /\ Truncated /\ LargeArena) => res.ret = EBADMSG

\* C4: the call reads source bytes only at indices below the declared
\* length L, and on success the remaining length it stores in *len is at
\* most L - 12, so that the consumed count L - *len lies in [12, L].
C4_ReadsInsideSlice ==
    dpc = "done" =>
        /\ res.rd \subseteq 0 .. (Len(buf) - 1)
        /\ res.ret = EOK =>
              /\ res.len <= Len(buf) - HdrLen
              /\ Len(buf) - res.len \in HdrLen .. Len(buf)

\* C4 witness: a successful call that read the very last byte of the slice.
C4_Witness ==
    /\ dpc = "done"
    /\ res.ret = EOK
    /\ Len(buf) - 1 \in res.rd
    /\ res.len = 0

\* C5: every valid encoded record, decoded into a sufficiently large arena,
\* succeeds, yields exactly the encoded name, passwd and members behind a
\* table of member_count entries and a NULL sentinel, and consumes 12 bytes
\* plus every string with its NUL.
C5_RoundTrip ==
    (dpc = "done" /\ WellFormed /\ LargeArena) =>
        /\ res.ret = EOK
        /\ DOMAIN res.tab = 0 .. in_mem
        /\ res.tab[in_mem] = NULL
        /\ \A l \in 0 .. (in_mem - 1) : res.tab[l] # NULL
        /\ Decoded(res, in_mem) = in_rec
        /\ Len(buf) - res.len = WireLen(in_rec)

\* C16: for every count in the header, 2^32 - 1 included, the table is
\* reserved with exactly (count + 1) pointer slots, the sum taken without
\* wraparound, and the NULL sentinel at slot count lies inside it.
C16_TableHoldsSentinel ==
    (dpc = "done" /\ res.ret # "none" /\ res.gr_mem # NULL)
    => /\ res.tabsize = PtrSize * (res.mem_num + 1)
       /\ res.sent # NULL =>
            PtrSize * res.sent + PtrSize <= res.tabsize

----------------------------------------------------------------------------
(* The channel, sss_nss_make_request: an external call that either fails   *)
(* or hands back a freshly allocated reply buffer and its length.          *)

NSS_STATUS_SUCCESS  == "NSS_STATUS_SUCCESS"
NSS_STATUS_NOTFOUND == "NSS_STATUS_NOTFOUND"
NSS_STATUS_TRYAGAIN == "NSS_STATUS_TRYAGAIN"
NSS_STATUS_UNAVAIL  == "NSS_STATUS_UNAVAIL"

MaxBatchRecs == 2   \* records in one batch
MaxCount     == 2   \* largest result count written in a reply header
MaxDrop      == 1   \* bytes a reply may miss at its end
MaxSupplied  == 3   \* records after which a well-formed enumeration ends
MaxHeap      == 2   \* reply buffers allocated at once
MaxFetches   == 2   \* requests counted within one _nss_sss_getgrent_r

ShortRec == [name |-> <<>>, passwd |-> <<>>, mem |-> <<>>]
LongRec  == [name |-> <<1, 2, 3>>, passwd |-> <<4>>,
             mem |-> << <<5, 6>>, <<>> >>]
CRecords == {ShortRec, LongRec}
Batches  == UNION {[1 .. n -> CRecords] : n \in 1 .. MaxBatchRecs}

RECURSIVE EncodeAll(_)
EncodeAll(recs) ==
    IF recs = <<>> THEN <<>>
    ELSE Encode(Gid, Len(Head(recs).mem), Head(recs)) \o EncodeAll(Tail(recs))

\* Result count, padding, then the records.
ReplyBytes(count, recs) == <<count, 0, 0, 0, 0, 0, 0, 0>> \o EncodeAll(recs)

\* Replies made of a batch, possibly with a wrong count or a missing tail.
\* recs is the ghost content of a well-formed reply.
BatchReplies ==
    {[bytes |-> SubSeq(ReplyBytes(c, b), 1, Len(ReplyBytes(c, b)) - d),
      oob   |-> 0,
      recs  |-> IF c = Len(b) /\ d = 0 THEN b ELSE <<>>,
      wf    |-> c = Len(b) /\ d = 0]
        : b \in Batches, c \in 0 .. MaxCount, d \in 0 .. MaxDrop}

\* Replies of at most the 8 header bytes.  oob is the value a read of the
\* count yields when the reply is shorter than the count itself.
HeaderReplies ==
    {[bytes |-> SubSeq(ReplyBytes(c, <<>>), 1, n),
      oob   |-> c,
      recs  |-> <<>>,
      wf    |-> c = 0 /\ n = BatchHdr]
        : c \in 0 .. MaxCount, n \in 0 .. BatchHdr}

Replies == BatchReplies \cup HeaderReplies

\* ((uint32_t *)repbuf)[0]
Count(rep) ==
    IF Len(rep.bytes) >= 4 THEN LE(rep.bytes, 0, 4) ELSE rep.oob

\* Arena capacities the callers pass: none, too small for the member
\* table, one byte short of the longest record, and large enough.
BigBuflen == Need(LongRec)
Arenas    == {0, Len(LongRec.name) + 1 + Len(LongRec.passwd) + 1,
              BigBuflen - 1, BigBuflen}

\* The heap of reply buffers: id |-> "batch" for a reply to the
\* enumeration request, "reply" for a reply to any other request.
Alloc(h) ==
    CHOOSE id \in 0 .. MaxHeap :
        id \notin DOMAIN h /\ \A j \in 0 .. (id - 1) : j \in DOMAIN h
free(h, id) == [j \in DOMAIN h \ {id} |-> h[j]]

Closed == [data |-> NULL, len |-> 0, ptr |-> 0]

\* Mutant of sss_nss_getgrent_data_clean: the pointer is dropped without
\* free().
sss_nss_getgrent_data_clean_NoFree(c, h) ==
    [cur |-> [data |-> NULL, len |-> 0, ptr |-> 0], heap |-> h]

\* Lines 38-46.  Yields the cursor and the heap after the call.
sss_nss_getgrent_data_clean(c, h) ==
    IF c.data # NULL
    THEN [cur |-> [data |-> NULL, len |-> 0, ptr |-> 0],
          heap |-> free(h, c.data)]
    ELSE [cur |-> [c EXCEPT !.len = 0, !.ptr = 0], heap |-> h]

\* Lines 356-357: if there are leftovers return the next one.
HasLeftovers(c) == c.data # NULL /\ c.ptr < c.len

\* Mutant of AdvancePtr: the consumed count is added to a count that
\* already holds the offset.
AdvancePtr_Added(c, replen) ==
    [c EXCEPT !.ptr = c.ptr + SizeSub(c.len, replen)]

\* Line 375: advance buffer pointer.
AdvancePtr(c, replen) == [c EXCEPT !.ptr = SizeSub(c.len, replen)]

\* Lines 400-402: the cursor takes the reply buffer.
StoreBatch(id, replen) == [data |-> id, len |-> replen, ptr |-> BatchHdr]

\* Line 395: no results if not found.
NoResults(rep) ==
    Count(rep) = 0 \/ SizeSub(Len(rep.bytes), BatchHdr) = 0

----------------------------------------------------------------------------
(* The calls.  A call is one action, except _nss_sss_getgrent_r, which     *)
(* blocks in the channel: the steps are the call up to the request and the *)
(* reply up to the return (or up to the next request).                     *)

Init ==
    /\ CursorAtStart
    /\ GidListAtStart
    /\ buf = <<>>
    /\ buflen = 0
    /\ junk \in {0, 35}
    /\ in_rec = ShortRec
    /\ in_mem = 0
    /\ dpc = "input"
    /\ res = [ret |-> "none"]

\* What a call leaves in last: its name, the status it returned, *errnop,
\* the reply buffer it received (NULL if none) and, for
\* _nss_sss_getgrent_r, the arena capacity it was given and the number of
\* requests it sent.
RetNext(status, errnop, repbuf, bl, n) ==
    [op |-> "getgrent", status |-> status, errnop |-> errnop,
     repbuf |-> repbuf, buflen |-> bl, fetches |-> n]
Ret(op, status, errnop, repbuf) ==
    [op |-> op, status |-> status, errnop |-> errnop, repbuf |-> repbuf,
     buflen |-> 0, fetches |-> 0]

GhostDrop == supplied' = <<>> /\ returned' = <<>> /\ clean' = FALSE

\* The bytes sss_nss_getgrent_data.data + ptr .. data + len of buffer m.
Leftover(c, m) == SubSeq(m[c.data], c.ptr + 1, c.len)

\* Lines 359-377: the leftovers branch of _nss_sss_getgrent_r, entered with
\* cursor c, heap h and buffer contents m; r is what the decoder did, rep
\* the reply buffer this call received (NULL if none), and cl, sup the
\* ghosts as they stand before the decode.
ReturnNext(c, h, m, bl, n, rep, r, cl, sup) ==
    /\ heap' = h
    /\ mem' = m
    /\ call' = NoCall
    /\ IF r.ret = FAULT
       THEN /\ pc' = "fault"
            /\ cur' = c
            /\ last' = RetNext(FAULT, "none", rep, bl, n)
       ELSE IF r.ret # EOK
       THEN /\ pc' = "idle"
            /\ cur' = c
            /\ last' = RetNext(NSS_STATUS_TRYAGAIN, r.ret, rep, bl, n)
       ELSE /\ pc' = "idle"
            /\ cur' = AdvancePtr(c, r.len)
            /\ last' = RetNext(NSS_STATUS_SUCCESS, "none", rep, bl, n)
    /\ IF cl /\ bl >= BigBuflen /\ r.ret # FAULT
       THEN /\ clean' = TRUE
            /\ supplied' = sup
            /\ returned' =
                 IF r.ret = EOK
                 THEN Append(returned, Decoded(r, LE(Leftover(c, m), 8, 4)))
                 ELSE returned
       ELSE GhostDrop

\* Lines 326-342.
setgrent ==
    /\ pc = "idle"
    /\ \E nret \in {NSS_STATUS_SUCCESS, NSS_STATUS_UNAVAIL} :
         LET k == sss_nss_getgrent_data_clean(cur, heap)
         IN  /\ cur' = k.cur
             /\ heap' = k.heap
             /\ mem' = <<>>
             /\ last' = Ret("setgrent", nret, "none", NULL)
             /\ supplied' = <<>>
             /\ returned' = <<>>
             /\ clean' = (nret = NSS_STATUS_SUCCESS)
    /\ UNCHANGED <<pc, call>>
    /\ UNCHANGED <<dvars, gvars>>

\* Lines 408-424.
endgrent ==
    /\ pc = "idle"
    /\ \E nret \in {NSS_STATUS_SUCCESS, NSS_STATUS_UNAVAIL} :
         LET k == sss_nss_getgrent_data_clean(cur, heap)
         IN  /\ cur' = k.cur
             /\ heap' = k.heap
             /\ mem' = <<>>
             /\ last' = Ret("endgrent", nret, "none", NULL)
    /\ GhostDrop
    /\ UNCHANGED <<pc, call>>
    /\ UNCHANGED <<dvars, gvars>>

\* Lines 344-389: the call, up to its return from the leftovers branch or
\* up to the request for the next batch.
getgrent_r ==
    /\ pc = "idle"
    /\ \E bl \in Arenas :
         /\ IF HasLeftovers(cur)
            THEN \E r \in Outcomes(
                         sss_nss_getgr_readrep(Leftover(cur, mem), bl, junk), bl) :
                    ReturnNext(cur, heap, mem, bl, 0, NULL, r, clean, supplied)
            ELSE LET k == sss_nss_getgrent_data_clean(cur, heap)
                 IN  /\ cur' = k.cur
                     /\ heap' = k.heap
                     /\ mem' = <<>>
                     /\ pc' = "getgrent_wait"
                     /\ call' = [buflen |-> bl, fetches |-> 1]
                     /\ UNCHANGED <<last, supplied, returned, clean>>
    /\ UNCHANGED <<dvars, gvars>>

\* Lines 388-392: the channel fails.
getgrent_fail ==
    /\ pc = "getgrent_wait"
    /\ pc' = "idle"
    /\ last' = RetNext(NSS_STATUS_UNAVAIL, "none", NULL,
                        call.buflen, call.fetches)
    /\ call' = NoCall
    /\ GhostDrop
    /\ UNCHANGED <<cur, heap, mem>>
    /\ UNCHANGED <<dvars, gvars>>

\* Lines 388-405: the channel hands back a reply; the call returns
\* NotFound, or stores the batch and calls itself, which returns the first
\* record or, finding no leftovers, asks the channel again.
getgrent_reply ==
    /\ pc = "getgrent_wait"
    /\ Cardinality(DOMAIN heap) < MaxHeap
    /\ \E rep \in Replies :
         LET id  == Alloc(heap)
             h1  == (id :> "batch") @@ heap
             cl  == clean /\ rep.wf
             sup == IF cl THEN supplied \o rep.recs ELSE <<>>
         IN
         /\ (clean /\ rep.wf /\ rep.recs # <<>>) => Len(supplied) < MaxSupplied
         /\ IF NoResults(rep)
            THEN /\ heap' = free(h1, id)
                 /\ pc' = "idle"
                 /\ last' = RetNext(NSS_STATUS_NOTFOUND, "none", id,
                                     call.buflen, call.fetches)
                 /\ call' = NoCall
                 /\ IF cl THEN UNCHANGED <<supplied, returned, clean>>
                          ELSE GhostDrop
                 /\ UNCHANGED <<cur, mem>>
            ELSE LET c1 == StoreBatch(id, Len(rep.bytes))
                     m1 == (id :> rep.bytes)
                 IN  IF HasLeftovers(c1)
                     THEN /\ \E r \in Outcomes(
                                 sss_nss_getgr_readrep(Leftover(c1, m1),
                                                       call.buflen, junk),
                                 call.buflen) :
                               ReturnNext(c1, h1, m1, call.buflen,
                                          call.fetches, id, r, cl, sup)
                     ELSE LET k == sss_nss_getgrent_data_clean(c1, h1)
                          IN  /\ cur' = k.cur
                              /\ heap' = k.heap
                              /\ mem' = <<>>
                              /\ pc' = "getgrent_wait"
                              /\ call' = [call EXCEPT !.fetches =
                                    IF @ < MaxFetches THEN @ + 1 ELSE @]
                              /\ GhostDrop
                              /\ UNCHANGED last
    /\ UNCHANGED <<dvars, gvars>>

----------------------------------------------------------------------------
(* The single-key lookups and the membership expansion.                    *)

\* The release also of the batch the cursor holds.
FreeReply_Cursor(h, id) ==
    [j \in {k \in DOMAIN h : k # id /\ h[k] # "batch"} |-> h[j]]

\* free(repbuf) of lines 196, 215, 252, 273, 300 and 321: a lookup
\* releases the reply it received.
FreeReply(h, id) == free(h, id)

\* Replies to a lookup: the 8 header bytes, alone or with one record.
LookupReplies ==
    {rep \in Replies : /\ Len(rep.bytes) >= BatchHdr
                       /\ Len(rep.bytes) <= BatchHdr + WireLen(LongRec)}

\* Lines 245-275 and 293-323, the same code in _nss_sss_getgrnam_r and
\* _nss_sss_getgrgid_r: op names the caller.
Lookup(op) ==
    /\ \/ /\ last' = Ret(op, NSS_STATUS_UNAVAIL, "none", NULL)
          /\ UNCHANGED <<pc, heap>>
       \/ /\ Cardinality(DOMAIN heap) < MaxHeap
          /\ \E rep \in LookupReplies, bl \in Arenas :
               LET id == Alloc(heap)
                   h1 == (id :> "reply") @@ heap
               IN
               IF Count(rep) = 0
               THEN /\ heap' = FreeReply(h1, id)
                    /\ pc' = "idle"
                    /\ last' = Ret(op, NSS_STATUS_NOTFOUND, "none", id)
               ELSE IF Count(rep) # 1
               THEN /\ heap' = h1
                    /\ pc' = "idle"
                    /\ last' = Ret(op, NSS_STATUS_TRYAGAIN, EBADMSG, id)
               ELSE \E r \in Outcomes(
                        sss_nss_getgr_readrep(
                            SubSeq(rep.bytes, BatchHdr + 1, Len(rep.bytes)),
                            bl, junk), bl) :
                      IF r.ret = FAULT
                      THEN /\ heap' = h1
                           /\ pc' = "fault"
                           /\ last' = Ret(op, FAULT, "none", id)
                      ELSE /\ heap' = FreeReply(h1, id)
                           /\ pc' = "idle"
                           /\ last' = IF r.ret # EOK
                                THEN Ret(op, NSS_STATUS_TRYAGAIN, r.ret, id)
                                ELSE Ret(op, NSS_STATUS_SUCCESS, "none", id)
    /\ UNCHANGED <<cur, mem, call, supplied, returned, clean>>
    /\ UNCHANGED <<dvars, gvars>>

\* Lines 232-276.
getgrnam_r ==
    /\ pc = "idle"
    /\ Lookup("getgrnam")

\* Lines 278-324.
getgrgid_r ==
    /\ pc = "idle"
    /\ Lookup("getgrgid")

MaxSize  == 1       \* capacity of the caller's gid array, in Spec
MaxLimit == 1       \* largest limit passed to _nss_sss_initgroups_dyn, in Spec

\* gid_t is narrower than the 64-bit ids of the reply: the store of line
\* 224 keeps the low bits.  GidWrap stands for 2^32.
GidWrap == 2 ^ 16
NarrowGid(x) == x % GidWrap

\* The l-th id of the reply, rbuf[l] for l < num_ret; odd ones do not fit
\* a gid_t.
ReplyId(l) == IF l % 2 = 0 THEN 100 + l ELSE GidWrap + 100 + l

\* rbuf[l], line 224.  The reply holds num_ret ids; a read past them finds
\* whatever follows the reply in memory.
RBuf(l, num_ret, jk) == IF l < num_ret THEN ReplyId(l) ELSE jk

\* The list a caller passes: entries 0 .. size-1, the first start of them
\* in use.
OldGroups(size) == [i \in 1 .. size |-> 50 + i]

\* Line 202: the ids do not fit the room left in the array.
NeedsGrowth(start, size, num_ret) == (size - start) < num_ret

\* Line 207.
OverLimit(newsize, limit) == limit > 0 /\ newsize > limit

\* Lines 206-210: the size asked of realloc.
NewSize(size, limit, num_ret) ==
    IF OverLimit(size + num_ret, limit) THEN limit ELSE size + num_ret

\* max_ret left at num_ret when the size is clamped.
MaxRet_Unclamped(start, size, limit, num_ret) == num_ret

\* Lines 199 and 209: the number of passes of the copy loop is max_ret,
\* if positive.
MaxRet(start, size, limit, num_ret) ==
    IF NeedsGrowth(start, size, num_ret) /\ OverLimit(size + num_ret, limit)
    THEN NewSize(size, limit, num_ret) - start
    ELSE num_ret

\* Line 212, realloc succeeding: the old entries that fit, then entries
\* nobody wrote yet.
realloc(groups, newsize, jk) ==
    [i \in 1 .. newsize |-> IF i <= Len(groups) THEN groups[i] ELSE jk]

\* Lines 222-226: the copy loop.  wr are the indices of *groups written,
\* rd the indices of rbuf read; a write outside the array changes no entry
\* of it.
CopyIds(g, max_ret, num_ret, jk) ==
    LET n == IF max_ret > 0 THEN max_ret ELSE 0
    IN  [start  |-> g.start + n,
         size   |-> g.size,
         groups |-> [i \in 1 .. Len(g.groups) |->
                       IF g.start < i /\ i <= g.start + n
                       THEN NarrowGid(RBuf(i - 1 - g.start, num_ret, jk))
                       ELSE g.groups[i]],
         wr     |-> g.start .. (g.start + n - 1),
         rd     |-> 0 .. (n - 1)]

\* The growth with *size set before realloc is known to have succeeded.
Grow_SizeFirst(g, newsize, ok, jk) ==
    [start |-> g.start, size |-> newsize,
     groups |-> IF ok THEN realloc(g.groups, newsize, jk) ELSE g.groups]

\* Lines 212-220: the list after the growth, or as it was if realloc fails.
Grow(g, newsize, ok, jk) ==
    IF ok
    THEN [start |-> g.start, size |-> newsize,
          groups |-> realloc(g.groups, newsize, jk)]
    ELSE g

\* The test on a count read as a signed number.
NoIds_Signed(num_ret) == num_ret < 0

\* Line 195: the reply carries no id.
NoIds(num_ret) == num_ret = 0

\* A return before the copy loop: the list as it stands, nothing read or
\* written.
NoCopy(g) ==
    [start |-> g.start, size |-> g.size, groups |-> g.groups,
     wr |-> {}, rd |-> {}]

\* Lines 193-228, after a reply with num_ret ids arrived: what the call
\* returns, whether it freed the reply, the list it leaves, and what it
\* read and wrote.  ok tells whether realloc succeeds.
InitgroupsBody(g, limit, num_ret, ok, jk) ==
    IF NoIds(num_ret)
    THEN [status |-> NSS_STATUS_NOTFOUND, errnop |-> "none",
          freed |-> TRUE, gl |-> NoCopy(g)]
    ELSE
    LET grow    == NeedsGrowth(g.start, g.size, num_ret)
        newsize == NewSize(g.size, limit, num_ret)
        max_ret == MaxRet(g.start, g.size, limit, num_ret)
        g1      == IF grow THEN Grow(g, newsize, ok, jk) ELSE g
    IN
    IF grow /\ ~ok
    THEN [status |-> NSS_STATUS_TRYAGAIN, errnop |-> ENOMEM,
          freed |-> TRUE, gl |-> NoCopy(g1)]
    ELSE [status |-> NSS_STATUS_SUCCESS, errnop |-> "none",
          freed |-> FALSE, gl |-> CopyIds(g1, max_ret, num_ret, jk)]

\* A store outside the array or a read past the ids of the reply is
\* undefined behaviour: the call may go on as computed, or the process
\* may die on the access.
InBounds(r, num_ret) ==
    /\ r.gl.wr \subseteq 0 .. (r.gl.size - 1)
    /\ r.gl.rd \subseteq 0 .. (num_ret - 1)
InitgroupsOutcomes(r, num_ret) ==
    {r} \cup (IF InBounds(r, num_ret) THEN {}
              ELSE {[r EXCEPT !.status = FAULT]})

\* Lines 171-229.
initgroups_dyn ==
    /\ pc = "idle"
    /\ \/ /\ last' = Ret("initgroups", NSS_STATUS_UNAVAIL, "none", NULL)
          /\ UNCHANGED <<pc, heap>>
       \/ /\ Cardinality(DOMAIN heap) < MaxHeap
          /\ \E size \in 1 .. MaxSize, limit \in 0 .. MaxLimit,
                num_ret \in 0 .. MaxCount, ok \in BOOLEAN :
               \E start \in 0 .. size :
                 LET id  == Alloc(heap)
                     h1  == (id :> "reply") @@ heap
                     g   == [start |-> start, size |-> size,
                             groups |-> OldGroups(size)]
                 IN  \E out \in InitgroupsOutcomes(
                            InitgroupsBody(g, limit, num_ret, ok, junk),
                            num_ret) :
                       /\ heap' = IF out.freed THEN FreeReply(h1, id) ELSE h1
                       /\ pc' = IF out.status = FAULT THEN "fault" ELSE "idle"
                       /\ last' = Ret("initgroups", out.status,
                                      out.errnop, id)
    /\ UNCHANGED <<cur, mem, call, supplied, returned, clean>>
    /\ UNCHANGED <<dvars, gvars>>

Next ==
    \/ setgrent
    \/ getgrent_r
    \/ getgrent_fail
    \/ getgrent_reply
    \/ endgrent
    \/ getgrnam_r
    \/ getgrgid_r
    \/ initgroups_dyn

Spec == Init /\ [][Next]_vars

----------------------------------------------------------------------------
(* SpecInitgroups: _nss_sss_initgroups_dyn applied to the lists, limits    *)
(* and reply counts a caller and the channel can hand it.                  *)

MaxGidSize  == 5    \* largest *size and *start on entry
MaxGidLimit == 6    \* largest limit
MaxIds      == 10   \* largest count in the reply header

InitInitgroups ==
    /\ \E start \in 0 .. MaxGidSize, size \in 0 .. MaxGidSize :
         gl = [start |-> start, size |-> size, groups |-> OldGroups(size)]
    /\ g_in \in [limit : -1 .. MaxGidLimit, num_ret : 0 .. MaxIds,
                 ok : BOOLEAN]
    /\ gpc = "input"
    /\ gres = [status |-> "none"]
    /\ junk \in {0, 35}
    /\ buf = <<>>
    /\ buflen = 0
    /\ in_rec = ShortRec
    /\ in_mem = 0
    /\ dpc = "input"
    /\ res = [ret |-> "none"]
    /\ CursorAtStart

\* One call of _nss_sss_initgroups_dyn whose request succeeded: lines
\* 193-228 on the reply.
InitgroupsCall ==
    /\ gpc = "input"
    /\ gres' \in InitgroupsOutcomes(
           InitgroupsBody(gl, g_in.limit, g_in.num_ret, g_in.ok, junk),
           g_in.num_ret)
    /\ gpc' = "done"
    /\ UNCHANGED <<gl, g_in>>
    /\ UNCHANGED <<dvars, cvars>>

NextInitgroups == InitgroupsCall

SpecInitgroups == InitInitgroups /\ [][NextInitgroups]_vars

----------------------------------------------------------------------------
(* Claims about the enumeration cursor and the reply buffers, checked      *)
(* under Spec.                                                             *)

IsPrefix(s, t) == Len(s) <= Len(t) /\ SubSeq(t, 1, Len(s)) = s

\* The index after the k-th NUL at or after pos, -1 if the bytes below len
\* hold fewer than k NULs.
RECURSIVE SkipStrings(_, _, _, _)
SkipStrings(b, pos, len, k) ==
    IF k = 0 THEN pos
    ELSE IF pos >= len THEN -1
    ELSE SkipStrings(b, pos + 1, len, IF ByteAt(b, pos) = 0 THEN k - 1 ELSE k)

\* The logical end of the record that starts at from, by the wire format:
\* header, name, passwd and as many members as the header tells; -1 if the
\* bytes below len do not hold all of it.
RecEnd(b, from, len) ==
    IF from + HdrLen > len THEN -1
    ELSE SkipStrings(b, from + HdrLen, len, 2 + LE(b, from + 8, 4))

\* Arena bytes the complete record at from needs.
RecNeed(b, from, len) ==
    (RecEnd(b, from, len) - from - HdrLen)
        + PtrSize * (LE(b, from + 8, 4) + 1)

\* C6: after _nss_sss_setgrent, with well-formed batches and large arenas,
\* _nss_sss_getgrent_r hands back exactly the records of the batches, in
\* order, none skipped or repeated, and NotFound once the channel reports
\* zero results; _nss_sss_endgrent and _nss_sss_setgrent start afresh.
C6_EnumerationYieldsBatches ==
    (clean /\ pc = "idle" /\ last.op = "getgrent") =>
        /\ last.status \in {NSS_STATUS_SUCCESS, NSS_STATUS_NOTFOUND}
        /\ IsPrefix(returned, supplied)
        /\ last.status = NSS_STATUS_NOTFOUND => returned = supplied

\* C7: a call of _nss_sss_getgrent_r on a held batch moves the offset only
\* when the decode succeeded; when the record at the offset is truncated
\* or the arena is too small for the whole of it, the call returns an
\* error and leaves buffer, length and offset as they were.
C7_FailedDecodeKeepsCursor ==
    [][(pc = "idle" /\ HasLeftovers(cur) /\ pc' = "idle"
            /\ last'.op = "getgrent")
        => /\ cur' # cur => last'.status = NSS_STATUS_SUCCESS
           /\ (\/ RecEnd(mem[cur.data], cur.ptr, cur.len) = -1
               \/ last'.buflen < RecNeed(mem[cur.data], cur.ptr, cur.len))
                 => /\ last'.status = NSS_STATUS_TRYAGAIN
                    /\ cur' = cur
                    /\ mem' = mem]_vars

\* C8: in every reachable state the cursor is Closed (data NULL, len 0,
\* ptr 0) or Active with ptr <= len.
C8_CursorShape ==
    \/ cur = Closed
    \/ cur.data # NULL /\ cur.ptr <= cur.len

\* C8 witness: a call that was handed a reply shorter than its header,
\* asked again, and read the only record of the next batch: the cursor is
\* Active and exhausted.
C8_Witness ==
    /\ pc = "idle"
    /\ last.op = "getgrent"
    /\ last.fetches >= 2
    /\ last.status = NSS_STATUS_SUCCESS
    /\ cur.data # NULL
    /\ cur.ptr = cur.len

\* C9: every error return of the four calls that comes after a reply
\* buffer was received leaves that buffer freed, or held by the cursor.
C9_ErrorPathsFreeReply ==
    (pc = "idle" /\ last.repbuf # NULL
        /\ last.op \in {"getgrnam", "getgrgid", "initgroups", "getgrent"}
        /\ last.status # NSS_STATUS_SUCCESS)
      => \/ last.repbuf \notin DOMAIN heap
         \/ cur.data = last.repbuf

\* C10: the cursor owns at most one batch buffer, the buffer it held is
\* freed before the next is asked for and stored, and after
\* _nss_sss_setgrent or _nss_sss_endgrent, whatever the channel answered,
\* the cursor is Closed and no batch buffer is allocated.
C10_OneBatchBuffer ==
    /\ \A id \in DOMAIN heap : heap[id] = "batch" => cur.data = id
    /\ cur.data # NULL => (cur.data \in DOMAIN heap /\ heap[cur.data] = "batch")
    /\ pc = "getgrent_wait" => cur = Closed
    /\ (pc = "idle" /\ last.op \in {"setgrent", "endgrent"}) =>
          /\ cur = Closed
          /\ \A id \in DOMAIN heap : heap[id] # "batch"

\* C10 witness: the cursor holds a batch that is not the first of its
\* enumeration (it is too short for the records supplied so far), while a
\* reply buffer of another call is still allocated.
C10_Witness ==
    /\ pc = "idle"
    /\ clean
    /\ cur.data # NULL
    /\ cur.len < BatchHdr + Len(EncodeAll(supplied))
    /\ \E id \in DOMAIN heap : heap[id] = "reply"

\* C15: _nss_sss_getgrnam_r, _nss_sss_getgrgid_r and
\* _nss_sss_initgroups_dyn leave sss_nss_getgrent_data alone: called at any
\* point of an enumeration they change neither the buffer, its contents,
\* the length nor the offset, and the records supplied and returned so far
\* stay as they are.  A step from "idle" that leaves the name of one of
\* the three in last is a call of it.
C15_LookupsLeaveCursor ==
    [][(/\ pc = "idle"
        /\ pc' # "getgrent_wait"
        /\ last'.op \in {"getgrnam", "getgrgid", "initgroups"})
         => /\ cur' = cur
            /\ mem' = mem
            /\ cur.data # NULL => cur.data \in DOMAIN heap'
            /\ supplied' = supplied
            /\ returned' = returned
            /\ clean' = clean]_vars

\* C15 witness: a lookup or an expansion has just returned in the middle of
\* a batch, after the first record of the batch was handed back.
C15_Witness ==
    /\ pc = "idle"
    /\ last.op \in {"getgrnam", "getgrgid", "initgroups"}
    /\ cur.data # NULL
    /\ BatchHdr < cur.ptr /\ cur.ptr < cur.len
    /\ clean
    /\ returned # <<>>

\* C19: when _nss_sss_initgroups_dyn returns Success the reply buffer it
\* received from the channel has been freed.
C19_InitgroupsFreesReply ==
    (pc = "idle" /\ last.op = "initgroups"
        /\ last.status = NSS_STATUS_SUCCESS)
      => last.repbuf \notin DOMAIN heap

\* C20: a call of _nss_sss_getgrent_r asks the channel for at most one
\* batch: whatever the reply, the self-call made after storing it decodes
\* and does not fetch again.
C20_OneFetchPerCall ==
    /\ call.fetches <= 1
    /\ last.op = "getgrent" => last.fetches <= 1

----------------------------------------------------------------------------
(* Claims about _nss_sss_initgroups_dyn, checked under SpecInitgroups.     *)

\* The list on entry is one a caller can hold: start inside the capacity.
StartInside == gl.start <= gl.size

\* The number of ids the call appended.
Appended == gres.gl.start - gl.start

\* The call took the growth branch of line 202 and realloc succeeded.
Grew == NeedsGrowth(gl.start, gl.size, g_in.num_ret) /\ g_in.ok

C12_FailedGrowthKeepsList ==
    (/\ gpc = "done"
     /\ g_in.num_ret > 0
     /\ NeedsGrowth(gl.start, gl.size, g_in.num_ret)
     /\ ~g_in.ok)
    => /\ gres.status = NSS_STATUS_TRYAGAIN
       /\ gres.errnop = ENOMEM
       /\ gres.gl.start = gl.start
       /\ gres.gl.size = gl.size
       /\ gres.gl.groups = gl.groups
       /\ gres.gl.wr = {}

C12_Witness ==
    /\ gpc = "done"
    /\ ~g_in.ok
    /\ gl.size = 2 /\ gl.start = 1 /\ g_in.num_ret = 3 /\ g_in.limit = 4
    /\ gres.errnop = ENOMEM
    /\ gres.gl.groups = <<51, 52>>

\* C13: a reply with count 0 makes the call return NotFound and leaves
\* the list (entries, size and start) as on entry.
C13_NoIdsIsNotFound ==
    (gpc = "done" /\ g_in.num_ret = 0)
    => /\ gres.status = NSS_STATUS_NOTFOUND
       /\ gres.gl.start = gl.start
       /\ gres.gl.size = gl.size
       /\ gres.gl.groups = gl.groups
       /\ gres.gl.wr = {}

C13_Witness ==
    /\ gpc = "done"
    /\ g_in.num_ret = 0
    /\ gl.size = 3 /\ gl.start = 3 /\ g_in.limit = 2
    /\ gres.status = NSS_STATUS_NOTFOUND
    /\ gres.gl.groups = <<51, 52, 53>>

\* C14: for every start, size, limit and reply count the size of the
\* array after the call is at least its size before the call.
C14_NeverShrinks ==
    gpc = "done" => gres.gl.size >= gl.size

\* The ids the reply carries, as they read once stored in a gid_t.
ReplyGids == {NarrowGid(ReplyId(l)) : l \in 0 .. (g_in.num_ret - 1)}

\* C17: a call that returns Success appended at most count ids, read no
\* id at an index >= count, and every entry it stored is one of the first
\* count ids of the reply.
C17_CopiesOnlyReplyIds ==
    (gpc = "done" /\ gres.status = NSS_STATUS_SUCCESS)
    => /\ Appended <= g_in.num_ret
       /\ gres.gl.rd \subseteq 0 .. (g_in.num_ret - 1)
       /\ \A i \in gres.gl.wr :
            i < Len(gres.gl.groups) => gres.gl.groups[i + 1] \in ReplyGids

\* C18: entered with 0 <= start <= size, the call writes only array
\* indices from the start it was given up to, and not including, the size
\* it leaves, whether it grew the array, clamped it or left it alone.
C18_WritesInsideArray ==
    (gpc = "done" /\ StartInside)
    => gres.gl.wr \subseteq gl.start .. (gres.gl.size - 1)

\* C18 witness: size 5, start 3, limit 6 and 10 ids: indices 3, 4 and 5
\* of the array grown to 6 are written.
C18_Witness ==
    /\ gpc = "done"
    /\ gl.start = 3 /\ gl.size = 5
    /\ g_in.limit = 6 /\ g_in.num_ret = 10
    /\ gres.status = NSS_STATUS_SUCCESS
    /\ gres.gl.size = 6
    /\ gres.gl.wr = 3 .. 5
    /\ gres.gl.groups = <<51, 52, 53, 100, 101, 102>>

====
